---- MODULE Spec2Model ----
(***************************************************************************)
(* The Playwright keyword library (src/Playwright/__init__.py): one bridge *)
(* instance that lazily spawns the node engine process, polls its Health   *)
(* RPC until it answers, and brokers each keyword as one RPC on a channel  *)
(* obtained from insecure_stub.                                            *)
(*                                                                         *)
(* Every caller has a program counter; one step of the model is one        *)
(* statement (or one blocking call) of the Python code.  The engine is the *)
(* environment: a spawned process may die at any moment, a Health probe or *)
(* a keyword RPC may fail at any moment.                                   *)
(***************************************************************************)
EXTENDS Integers, Sequences, FiniteSets, TLC

\* ------------------------------------------------------------------ bounds
MaxProcs == 2            \* engine processes spawned in one run of the model
MaxPorts == 2            \* distinct port numbers find_free_port may return

\* --------------------------------------------------------- program constants
HealthAttempts == 50     \* for i in range(50)

None == "<None>"         \* Python's None

Callers == {1, 2}        \* threads that may call into the bridge
Ports == 1..MaxPorts
Values == {"a", "b"}     \* texts, urls, titles: what the engine may answer
Inputs == {"a"}          \* texts, urls, titles: what the keywords are called with
Selectors == {"#q"}

\* ------------------------------------------------------------------ strings
\* A browser name is a sequence of characters, so that lower() and strip()
\* are computed on it.
Upper == <<"A","B","C","D","E","F","G","H","I","J","K","L","M",
           "N","O","P","Q","R","S","T","U","V","W","X","Y","Z">>
Lower == <<"a","b","c","d","e","f","g","h","i","j","k","l","m",
           "n","o","p","q","r","s","t","u","v","w","x","y","z">>
Whitespace == {" ", "\t", "\n"}

lower_char(ch) ==
    IF \E k \in 1..26 : Upper[k] = ch
    THEN Lower[CHOOSE k \in 1..26 : Upper[k] = ch]
    ELSE ch

\* str.lower()
lower(s) == [k \in 1..Len(s) |-> lower_char(s[k])]

RECURSIVE lstrip(_)
lstrip(s) == IF s # <<>> /\ Head(s) \in Whitespace THEN lstrip(Tail(s)) ELSE s

RECURSIVE rstrip(_)
rstrip(s) ==
    IF s # <<>> /\ s[Len(s)] \in Whitespace
    THEN rstrip(SubSeq(s, 1, Len(s) - 1))
    ELSE s

\* str.strip()
strip(s) == rstrip(lstrip(s))

_SUPPORTED_BROWSERS ==
    << <<"c","h","r","o","m","e">>,
       <<"f","i","r","e","f","o","x">>,
       <<"w","e","b","k","i","t">> >>

\* browser_ = browser.lower().strip()
browser_Mut(browser) == lower(browser)
browser_(browser) == strip(lower(browser))

\* The browser arguments the model calls open_browser with.
BrowserInputs ==
    { <<"C","h","r","o","m","e">>,                   \* the default, "Chrome"
      <<" ","F","i","r","e","F","o","x","\t">>,
      <<"w","e","b","k","i","t">>,
      <<"c","h","r","o"," ","m","e">>,               \* inner blank: unsupported
      <<"S","a","f","a","r","i">>,
      <<>> }
UrlInputs == {None, "a"}

NotSupportedMut(b) == FALSE
\* if browser_ not in _SUPPORTED_BROWSERS
NotSupported(b) == ~ \E k \in 1..Len(_SUPPORTED_BROWSERS) : _SUPPORTED_BROWSERS[k] = b

\* ------------------------------------------------------------------- state
VARIABLES
    cache,      \* the cached_property slot of _playwright_process: 0 = not stored
    port,       \* self.port: 0 = None
    procs,      \* the engine processes spawned so far, in spawn order
    lock,       \* cached_property's lock: NoLock (this Python has none), 0 free, else its holder
    pc,         \* per caller: where it is in the code
    kw,         \* per caller: the operation it runs (or ran last)
    args,       \* per caller: that operation's arguments
    result,     \* per caller: how the last operation ended ("none": running)
    handle,     \* per caller: the value self._playwright_process evaluated to
    popen,      \* per caller: the local popen of _playwright_process
    probes,     \* per caller: the loop counter of the running start(): iterations begun
    okProbes,   \* per caller: Health responses received in this call
    rc,         \* per caller: what poll() returned in this call
    pchan,      \* per caller: the channel of the current health probe
    chan,       \* per caller: the channel insecure_stub opened in this call
    req,        \* per caller: the requests sent on that channel, in order
    body,       \* per caller: response.body of the keyword RPC
    message     \* per caller: the message of the AssertionError it raised

shared == <<cache, port, procs, lock>>
frame == <<pc, kw, args, result>>
locals == <<handle, popen, probes, okProbes, rc, pchan, chan, req, body, message>>
vars == <<cache, port, procs, lock, pc, kw, args, result,
          handle, popen, probes, okProbes, rc, pchan, chan, req, body, message>>

NoArgs == [browser |-> <<>>, url |-> None, selector |-> None, text |-> None]
NoChan == [state |-> "none", port |-> 0, closes |-> 0]
Unpolled == "unpolled"
Exited == "exited"       \* poll() returned a return code
NoMessage == <<>>

\* functools.cached_property takes a lock around the call of the function in
\* Python 3.8 to 3.11 and takes none from Python 3.12 on.
NoLock == -1
Builds == {NoLock, 0}

Init ==
    /\ cache = 0
    /\ port = 0
    /\ procs = <<>>
    /\ lock \in Builds
    /\ pc = [c \in Callers |-> "idle"]
    /\ kw = [c \in Callers |-> "none"]
    /\ args = [c \in Callers |-> NoArgs]
    /\ result = [c \in Callers |-> "none"]
    /\ handle = [c \in Callers |-> 0]
    /\ popen = [c \in Callers |-> 0]
    /\ probes = [c \in Callers |-> 0]
    /\ okProbes = [c \in Callers |-> 0]
    /\ rc = [c \in Callers |-> Unpolled]
    /\ pchan = [c \in Callers |-> NoChan]
    /\ chan = [c \in Callers |-> NoChan]
    /\ req = [c \in Callers |-> <<>>]
    /\ body = [c \in Callers |-> None]
    /\ message = [c \in Callers |-> NoMessage]

\* ------------------------------------------------------- the engine process
\* Popen(["node", path_to_script], env={"PORT": self.port, ...}).  state is the
\* handle's lifecycle as the supervisor has seen it: Starting, Ready, Failed,
\* Stopped, Dead.  alive is what the operating system knows.
NewProcess(pt) == [alive |-> TRUE, port |-> pt, state |-> "Starting"]

LiveProcs == {p \in 1..Len(procs) : procs[p].alive}

\* An engine that is running and was told to listen on pt.
Listening(pt) == \E p \in LiveProcs : procs[p].port = pt

SetState(ps, p, st) == [ps EXCEPT ![p] = [@ EXCEPT !.state = st]]

pollMut(h) == None
\* Popen.poll(): None while the process runs, its return code afterwards.
poll(h) == IF procs[h].alive THEN None ELSE Exited

killMut(ps, h) == ps
\* Popen.kill()
kill(ps, h) ==
    [ps EXCEPT ![h] = [@ EXCEPT !.alive = FALSE,
                                !.state = IF @ = "Ready" THEN "Stopped" ELSE @]]

\* The ports the bridge was given so far.  Port numbers are names only, so
\* the k-th distinct port handed out is called k.
KnownPorts == {procs[p].port : p \in 1..Len(procs)} \cup ({port} \ {0})

\* from .util import find_free_port: some port the OS reports free, one handed
\* out before or a new one.
find_free_port == {pt \in Ports : pt <= Cardinality(KnownPorts) + 1}

\* --------------------------------------------------------------- requests
Empty == [msg |-> "Empty"]
openBrowserRequest(url, browser) == [msg |-> "openBrowserRequest", url |-> url, browser |-> browser]
goToRequest(url) == [msg |-> "goToRequest", url |-> url]
inputTextRequest(input, selector) == [msg |-> "inputTextRequest", input |-> input, selector |-> selector]
selectorRequest(selector) == [msg |-> "selectorRequest", selector |-> selector]

\* url or ""
OrEmpty(url) == IF url = None \/ url = "" THEN "" ELSE url

\* The RPC each keyword calls on its stub, with the request it passes.
Request(k, a) ==
    CASE k = "open_browser" ->
            [rpc |-> "OpenBrowser",
             request |-> openBrowserRequest(OrEmpty(a.url), browser_(a.browser))]
      [] k = "close_browser" -> [rpc |-> "CloseBrowser", request |-> Empty]
      [] k = "go_to" -> [rpc |-> "GoTo", request |-> goToRequest(a.url)]
      [] k = "input_text" ->
            [rpc |-> "InputText", request |-> inputTextRequest(a.text, a.selector)]
      [] k = "click_button" ->
            [rpc |-> "ClickButton", request |-> selectorRequest(a.selector)]
      [] k = "location_should_be" -> [rpc |-> "GetUrl", request |-> Empty]
      [] k = "textfield_value_should_be" ->
            [rpc |-> "GetInputValue", request |-> selectorRequest(a.selector)]
      [] k = "title_should_be" -> [rpc |-> "GetTitle", request |-> Empty]
      [] k = "page_should_contain" ->
            [rpc |-> "GetTextContent", request |-> selectorRequest("text=" \o a.text)]

AssertionKeywords ==
    {"location_should_be", "textfield_value_should_be", "title_should_be",
     "page_should_contain"}

AssertionFailsMut(k, a, b) ==
    k \in AssertionKeywords /\ (IF k = "location_should_be" THEN a.url ELSE a.text) = b
\* if url != page_url / if response.body != text / if response.body != title
AssertionFails(k, a, b) ==
    CASE k = "location_should_be" -> a.url # b
      [] k \in {"textfield_value_should_be", "title_should_be", "page_should_contain"} ->
            a.text # b
      [] OTHER -> FALSE

\* str.format: the template is cut at its replacement fields "{}", which the
\* values fill in order; the message is kept as its pieces.
RECURSIVE format(_, _)
format(template, values) ==
    IF template = <<>> THEN <<>>
    ELSE IF Head(template) = "{}"
         THEN <<Head(values)>> \o format(Tail(template), Tail(values))
         ELSE <<Head(template)>> \o format(Tail(template), values)

\* The argument of raise AssertionError(...) in each validation keyword (the
\* backquotes of the source are written ' here).
AssertionMessage(k, a, b) ==
    CASE k = "location_should_be" ->
            format(<<"URL should be '", "{}", "'  but was '", "{}", "'">>, <<a.url, b>>)
      [] k = "textfield_value_should_be" ->
            format(<<"Textfield ", "{}", " content should be ", "{}", " but was '", "{}", "'">>,
                   <<a.selector, a.text, b>>)
      [] k = "title_should_be" ->
            format(<<"Title should be ", "{}", " but was '", "{}", "'">>, <<a.text, b>>)
      [] k = "page_should_contain" ->
            format(<<"No element with text '", "{}", "' on page">>, <<a.text>>)

\* ------------------------------------------------------- entering a call
Set(f, c, v) == [f EXCEPT ![c] = v]

\* A new call starts with fresh locals.
FreshLocals(c) ==
    /\ handle' = Set(handle, c, 0)
    /\ popen' = Set(popen, c, 0)
    /\ probes' = Set(probes, c, 0)
    /\ okProbes' = Set(okProbes, c, 0)
    /\ rc' = Set(rc, c, Unpolled)
    /\ pchan' = Set(pchan, c, NoChan)
    /\ chan' = Set(chan, c, NoChan)
    /\ req' = Set(req, c, <<>>)
    /\ body' = Set(body, c, None)
    /\ message' = Set(message, c, NoMessage)

\* Callers that may still reach Popen in their current call.
Starting == {d \in Callers : pc[d] \in {"access", "lock", "alloc", "popen"}}

\* The model spawns MaxProcs processes at most: a call that may have to spawn
\* one more is not begun.
CanStart == cache # 0 \/ Len(procs) + Cardinality(Starting) < MaxProcs

\* The operation k(a) is called by c and reaches its first statement at pc0.
Enter(c, k, a, pc0) ==
    /\ pc[c] = "idle"
    /\ pc' = Set(pc, c, pc0)
    /\ kw' = Set(kw, c, k)
    /\ args' = Set(args, c, a)
    /\ result' = Set(result, c, "none")
    /\ FreshLocals(c)
    /\ UNCHANGED shared

\* The operation of c ends: it returns ("ok") or raises.
Leave(c, how) ==
    /\ pc' = Set(pc, c, "idle")
    /\ result' = Set(result, c, how)
    /\ UNCHANGED <<kw, args>>

\* -------------------------------------------------------------- keywords
open_browser(c, browser, url) ==
    LET a == [NoArgs EXCEPT !.browser = browser, !.url = url] IN
    IF NotSupported(browser_(browser))
    THEN /\ pc[c] = "idle"                     \* raise ValueError
         /\ kw' = Set(kw, c, "open_browser")
         /\ args' = Set(args, c, a)
         /\ result' = Set(result, c, "ValueError")
         /\ FreshLocals(c)
         /\ UNCHANGED <<shared, pc>>
    ELSE /\ CanStart
         /\ Enter(c, "open_browser", a, "access")

close_browser(c) == CanStart /\ Enter(c, "close_browser", NoArgs, "access")

go_to(c, url) ==
    CanStart /\ Enter(c, "go_to", [NoArgs EXCEPT !.url = url], "access")

input_text(c, selector, text) ==
    /\ CanStart
    /\ Enter(c, "input_text", [NoArgs EXCEPT !.selector = selector, !.text = text], "access")

click_button(c, selector) ==
    CanStart /\ Enter(c, "click_button", [NoArgs EXCEPT !.selector = selector], "access")

location_should_be(c, url) ==
    CanStart /\ Enter(c, "location_should_be", [NoArgs EXCEPT !.url = url], "access")

textfield_value_should_be(c, selector, text) ==
    /\ CanStart
    /\ Enter(c, "textfield_value_should_be",
             [NoArgs EXCEPT !.selector = selector, !.text = text], "access")

title_should_be(c, title) ==
    CanStart /\ Enter(c, "title_should_be", [NoArgs EXCEPT !.text = title], "access")

page_should_contain(c, text) ==
    CanStart /\ Enter(c, "page_should_contain", [NoArgs EXCEPT !.text = text], "access")

\* def _close(self): the library's shutdown hook, "stop".
_close(c) == CanStart /\ Enter(c, "_close", NoArgs, "access")

\* ------------------------------------------- _playwright_process (lazy start)
\* Where the caller goes on once self._playwright_process has a value.
AfterHandle(c) == IF kw[c] = "_close" THEN "kill" ELSE "poll"

MemoizeMut(p) == 0
\* What cached_property stores in the instance once the function returned p.
Memoize(p) == p

\* self._playwright_process is evaluated: the stored value if there is one,
\* the function body otherwise.
cached_property(c) ==
    /\ pc[c] = "access"
    /\ IF cache # 0
       THEN /\ handle' = Set(handle, c, cache)
            /\ pc' = Set(pc, c, AfterHandle(c))
       ELSE /\ pc' = Set(pc, c, "lock")
            /\ UNCHANGED handle
    /\ UNCHANGED <<shared, kw, args, result, popen, probes, okProbes, rc, pchan,
                   chan, req, body, message>>

\* Where cached_property has a lock: "with self.lock", then the stored value
\* is looked up again before the function is called.  Where it has none the
\* function is called at once.
AcquireLock(c) ==
    /\ pc[c] = "lock"
    /\ lock \in {NoLock, 0}
    /\ IF lock # NoLock /\ cache # 0
       THEN /\ handle' = Set(handle, c, cache)
            /\ pc' = Set(pc, c, AfterHandle(c))
            /\ UNCHANGED lock
       ELSE /\ lock' = IF lock = NoLock THEN NoLock ELSE c
            /\ pc' = Set(pc, c, "alloc")
            /\ UNCHANGED handle
    /\ UNCHANGED <<cache, port, procs, kw, args, result, popen, probes, okProbes, rc,
                   pchan, chan, req, body, message>>

\* The with block of cached_property is left: the lock, if c holds it, is free.
Released(c) == IF lock = c THEN 0 ELSE lock

\* self.port = str(find_free_port())
AssignPort(c, pt) ==
    /\ pc[c] = "alloc"
    /\ pt \in find_free_port
    /\ port' = pt
    /\ pc' = Set(pc, c, "popen")
    /\ UNCHANGED <<cache, procs, lock, kw, args, result, locals>>

\* popen = Popen(...)
Popen(c) ==
    /\ pc[c] = "popen"
    /\ Len(procs) < MaxProcs
    /\ procs' = Append(procs, NewProcess(port))
    /\ popen' = Set(popen, c, Len(procs) + 1)
    /\ pc' = Set(pc, c, "loop")
    /\ UNCHANGED <<cache, port, lock, kw, args, result, handle, probes, okProbes, rc,
                   pchan, chan, req, body, message>>

LoopContinuesMut(n) == n < HealthAttempts - 1
\* for i in range(50): n iterations were begun so far.
LoopContinues(n) == n < HealthAttempts

NextIterationMut(n) == n
\* The loop counter after one more iteration.
NextIteration(n) == n + 1

\* with grpc.insecure_channel(f"localhost:{self.port}") as channel
HealthChannel(c) ==
    /\ pc[c] = "loop"
    /\ LoopContinues(probes[c])
    /\ probes' = Set(probes, c, NextIteration(probes[c]))
    /\ pchan' = Set(pchan, c, [state |-> "open", port |-> port, closes |-> 0])
    /\ pc' = Set(pc, c, "health")
    /\ UNCHANGED <<shared, kw, args, result, handle, popen, okProbes, rc, chan,
                   req, body, message>>

\* The with block is left: the probe's channel is closed.
Closed(ch) == [ch EXCEPT !.state = "closed", !.closes = @ + 1]

\* response = stub.Health(Empty()) answers; return popen, which cached_property
\* stores.
HealthOk(c) ==
    /\ pc[c] = "health"
    /\ Listening(pchan[c].port)
    /\ okProbes' = Set(okProbes, c, okProbes[c] + 1)
    /\ pchan' = Set(pchan, c, Closed(pchan[c]))
    /\ cache' = Memoize(popen[c])
    /\ lock' = Released(c)
    /\ procs' = SetState(procs, popen[c], "Ready")
    /\ handle' = Set(handle, c, popen[c])
    /\ probes' = Set(probes, c, 0)
    /\ pc' = Set(pc, c, AfterHandle(c))
    /\ UNCHANGED <<port, kw, args, result, popen, rc, chan, req, body, message>>

HealthErrorMut(c) ==
    /\ pc[c] = "health"
    /\ pc' = Set(pc, c, "loop")
    /\ UNCHANGED <<shared, kw, args, result, handle, popen, probes, okProbes, rc,
                   pchan, chan, req, body, message>>
\* except grpc.RpcError: time.sleep(0.1)
HealthError(c) ==
    /\ pc[c] = "health"
    /\ pchan' = Set(pchan, c, Closed(pchan[c]))
    /\ pc' = Set(pc, c, "loop")
    /\ UNCHANGED <<shared, kw, args, result, handle, popen, probes, okProbes, rc,
                   chan, req, body, message>>

StartupTimeoutKills(c) ==
    /\ pc[c] = "loop"
    /\ ~LoopContinues(probes[c])
    /\ procs' = kill(SetState(procs, popen[c], "Failed"), popen[c])
    /\ probes' = Set(probes, c, 0)
    /\ lock' = Released(c)
    /\ Leave(c, "RuntimeError")
    /\ UNCHANGED <<cache, port, handle, popen, okProbes, rc, pchan, chan, req, body, message>>
StartupTimeoutMut(c) ==
    /\ pc[c] = "loop"
    /\ ~LoopContinues(probes[c])
    /\ cache' = Memoize(popen[c])
    /\ lock' = Released(c)
    /\ handle' = Set(handle, c, popen[c])
    /\ probes' = Set(probes, c, 0)
    /\ pc' = Set(pc, c, AfterHandle(c))
    /\ UNCHANGED <<port, procs, kw, args, result, popen, okProbes, rc, pchan, chan,
                   req, body, message>>
\* The loop is exhausted: raise RuntimeError("Could not connect ...").  Nothing
\* is stored by cached_property, and popen goes out of scope.
StartupTimeout(c) ==
    /\ pc[c] = "loop"
    /\ ~LoopContinues(probes[c])
    /\ procs' = SetState(procs, popen[c], "Failed")
    /\ probes' = Set(probes, c, 0)
    /\ lock' = Released(c)
    /\ Leave(c, "RuntimeError")
    /\ UNCHANGED <<cache, port, handle, popen, okProbes, rc, pchan, chan, req, body, message>>

\* ------------------------------------------------------------------ _close
\* self._playwright_process.kill()
Kill(c) ==
    /\ pc[c] = "kill"
    /\ procs' = kill(procs, handle[c])
    /\ Leave(c, "ok")
    /\ UNCHANGED <<cache, port, lock, locals>>

\* ----------------------------------------------------------- insecure_stub
RaisesConnectionErrorMut(r) == FALSE
\* if self._playwright_process.poll() is not None
RaisesConnectionError(r) == r # None

\* if self._playwright_process.poll() is not None: raise ConnectionError(...)
Poll(c) ==
    LET r == poll(handle[c]) IN
    /\ pc[c] = "poll"
    /\ rc' = Set(rc, c, r)
    /\ IF RaisesConnectionError(r)
       THEN /\ Leave(c, "ConnectionError")
            /\ procs' = IF procs[handle[c]].state = "Ready"
                        THEN SetState(procs, handle[c], "Dead")
                        ELSE procs
       ELSE /\ pc' = Set(pc, c, "channel")
            /\ UNCHANGED <<kw, args, result, procs>>
    /\ UNCHANGED <<cache, port, lock, handle, popen, probes, okProbes, pchan, chan, req,
                   body, message>>

OpenChannelMut(c) ==
    /\ pc[c] = "channel"
    /\ chan' = Set(chan, c, [state |-> "open", port |-> procs[1].port, closes |-> 0])
    /\ pc' = Set(pc, c, "call")
    /\ UNCHANGED <<shared, kw, args, result, handle, popen, probes, okProbes, rc,
                   pchan, req, body, message>>
\* channel = grpc.insecure_channel(f"localhost:{self.port}"); yield the stub
OpenChannel(c) ==
    /\ pc[c] = "channel"
    /\ chan' = Set(chan, c, [state |-> "open", port |-> port, closes |-> 0])
    /\ pc' = Set(pc, c, "call")
    /\ UNCHANGED <<shared, kw, args, result, handle, popen, probes, okProbes, rc,
                   pchan, req, body, message>>

\* The bodies an engine may answer the keyword k with.
Bodies(k) == IF k \in AssertionKeywords THEN Values ELSE {None}

\* response = stub.<Rpc>(request) returns a response.
RpcOk(c, b) ==
    /\ pc[c] = "call"
    /\ Listening(chan[c].port)
    /\ b \in Bodies(kw[c])
    /\ req' = Set(req, c, Append(req[c], Request(kw[c], args[c])))
    /\ body' = Set(body, c, b)
    /\ pc' = Set(pc, c, "check")
    /\ UNCHANGED <<shared, kw, args, result, handle, popen, probes, okProbes, rc,
                   pchan, chan, message>>

RpcErrorMut(c) ==
    /\ pc[c] = "call"
    /\ req' = Set(req, c, Append(req[c], Request(kw[c], args[c])))
    /\ pc' = Set(pc, c, "channel")
    /\ UNCHANGED <<shared, kw, args, result, handle, popen, probes, okProbes, rc,
                   pchan, chan, body, message>>
\* stub.<Rpc>(request) raises grpc.RpcError inside the with block: the
\* exception is thrown into the generator at its yield, which has no
\* try/finally, so channel.close() is not reached.
RpcError(c) ==
    /\ pc[c] = "call"
    /\ req' = Set(req, c, Append(req[c], Request(kw[c], args[c])))
    /\ Leave(c, "RpcError")
    /\ UNCHANGED <<shared, handle, popen, probes, okProbes, rc, pchan, chan, body, message>>

\* logger.info(response.log) and, in the validation keywords, the comparison.
\* raise AssertionError leaves the with block as RpcError does.
Check(c) ==
    /\ pc[c] = "check"
    /\ IF AssertionFails(kw[c], args[c], body[c])
       THEN /\ Leave(c, "AssertionError")
            /\ message' = Set(message, c, AssertionMessage(kw[c], args[c], body[c]))
       ELSE /\ pc' = Set(pc, c, "release")
            /\ UNCHANGED <<kw, args, result, message>>
    /\ UNCHANGED <<shared, handle, popen, probes, okProbes, rc, pchan, chan, req, body>>

\* The with block ends normally: the generator resumes, channel.close()
Release(c) ==
    /\ pc[c] = "release"
    /\ chan' = Set(chan, c, Closed(chan[c]))
    /\ Leave(c, "ok")
    /\ UNCHANGED <<shared, handle, popen, probes, okProbes, rc, pchan, req, body, message>>

\* ------------------------------------------------------------- environment
\* A running engine process exits on its own (crash, killed from outside).
ProcessDies(p) ==
    /\ p \in LiveProcs
    /\ procs' = [procs EXCEPT ![p] = [@ EXCEPT !.alive = FALSE]]
    /\ UNCHANGED <<cache, port, lock, frame, locals>>

\* ------------------------------------------------------------ specification
\* One operation of caller c begins.
Call(c) ==
    \/ \E b \in BrowserInputs, u \in UrlInputs : open_browser(c, b, u)
    \/ close_browser(c)
    \/ \E u \in Inputs : go_to(c, u)
    \/ \E sel \in Selectors, t \in Inputs : input_text(c, sel, t)
    \/ \E sel \in Selectors : click_button(c, sel)
    \/ \E u \in Inputs : location_should_be(c, u)
    \/ \E sel \in Selectors, t \in Inputs : textfield_value_should_be(c, sel, t)
    \/ \E t \in Inputs : title_should_be(c, t)
    \/ \E t \in Inputs : page_should_contain(c, t)
    \/ _close(c)

\* One statement of the operation caller c is in.
Step(c) ==
    \/ cached_property(c)
    \/ AcquireLock(c)
    \/ \E pt \in Ports : AssignPort(c, pt)
    \/ Popen(c)
    \/ HealthChannel(c)
    \/ HealthOk(c)
    \/ HealthError(c)
    \/ StartupTimeout(c)
    \/ Kill(c)
    \/ Poll(c)
    \/ OpenChannel(c)
    \/ \E b \in Values \cup {None} : RpcOk(c, b)
    \/ RpcError(c)
    \/ Check(c)
    \/ Release(c)

Environment == \E p \in 1..MaxProcs : ProcessDies(p)

\* The single logical caller the library is written for (one call at a time).
MainCaller == 1

Next == Call(MainCaller) \/ Step(MainCaller) \/ Environment

Spec == Init /\ [][Next]_vars

\* The caller's own code keeps running: a call, once begun, is not suspended
\* forever (blocking calls return or raise).
FairSpec == Spec /\ WF_vars(Step(MainCaller))

\* Two threads share the bridge and each issues its first keyword call, at any
\* interleaving of their statements.
FirstCall(c) == kw[c] = "none" /\ \E u \in Inputs : go_to(c, u)

\* One statement of the keyword call caller c is in.
KeywordStep(c) ==
    \/ cached_property(c)
    \/ AcquireLock(c)
    \/ \E pt \in Ports : AssignPort(c, pt)
    \/ Popen(c)
    \/ HealthChannel(c)
    \/ HealthOk(c)
    \/ HealthError(c)
    \/ StartupTimeout(c)
    \/ Poll(c)
    \/ OpenChannel(c)
    \/ \E b \in Values \cup {None} : RpcOk(c, b)
    \/ RpcError(c)
    \/ Check(c)
    \/ Release(c)

ConcNext == (\E c \in Callers : FirstCall(c) \/ KeywordStep(c)) \/ Environment

ConcSpec == Init /\ [][ConcNext]_vars

\* ================================================================ properties
Procs == 1..Len(procs)
SupportedSet == {_SUPPORTED_BROWSERS[k] : k \in 1..Len(_SUPPORTED_BROWSERS)}
InStart(c) == pc[c] \in {"lock", "alloc", "popen", "loop", "health"}
Returned(c) == pc[c] = "idle" /\ result[c] # "none"

\* A start() has returned a handle at some time: the handle's lifecycle has
\* passed Ready.
HandleExists == \E p \in Procs : procs[p].state \in {"Ready", "Stopped", "Dead"}
StartFailed == \E p \in Procs : procs[p].state = "Failed"

\* A step in which some caller opens the channel of a health probe.
ProbeIssued == \E c \in Callers : pchan'[c].state = "open" /\ pchan[c].state # "open"
\* A step in which a process is spawned.
ProcessSpawned == Len(procs') # Len(procs)

\* C1: whenever an operation has ended, by return or by any exception, the
\* channel insecure_stub opened for it has been closed, exactly once.
C1_ChannelClosedOnReturn ==
    \A c \in Callers :
        (pc[c] = "idle" /\ chan[c].state # "none")
            => (chan[c].state = "closed" /\ chan[c].closes = 1)

\* C2: open_browser with a name that, lower-cased and stripped, is not a
\* supported browser ends with ValueError at once, having spawned no process,
\* probed nothing, opened no channel and sent no request; the step that raises
\* leaves cache, port and processes as they were.
C2_UnsupportedCall(c) ==
    kw[c] = "open_browser" /\ browser_(args[c].browser) \notin SupportedSet
C2_UnsupportedBrowserIsLocal ==
    /\ [](\A c \in Callers :
            C2_UnsupportedCall(c) =>
                /\ Returned(c) /\ result[c] = "ValueError"
                /\ handle[c] = 0 /\ popen[c] = 0 /\ rc[c] = Unpolled
                /\ pchan[c] = NoChan /\ chan[c] = NoChan /\ req[c] = <<>>)
    /\ [][\A c \in Callers :
            (pc[c] = "idle" /\ pc'[c] = "idle" /\ result'[c] = "ValueError"
                /\ <<kw[c], args[c]>>' # <<kw[c], args[c]>> /\ C2_UnsupportedCall(c)')
                => UNCHANGED <<cache, port, procs>>]_vars
C2_Witness ==
    \E c \in Callers :
        /\ C2_UnsupportedCall(c) /\ result[c] = "ValueError"
        /\ args[c].browser = <<"c","h","r","o"," ","m","e">>
        /\ HandleExists

\* C3: at most one engine process spawned by the bridge is alive.
C3_AtMostOneLiveProcess == Cardinality(LiveProcs) <= 1

\* C4: once a start() has returned a handle, that handle stays the cached one
\* and is what every later access evaluates to; no later step spawns a process,
\* issues a health probe or changes the port.
C4_StartIdempotent ==
    /\ [](HandleExists =>
            /\ cache # 0
            /\ \A c \in Callers : handle[c] \in {0, cache})
    /\ [][HandleExists =>
            /\ cache' = cache /\ port' = port
            /\ ~ProcessSpawned /\ ~ProbeIssued]_vars
C4_Witness ==
    \E c \in Callers :
        /\ HandleExists /\ Returned(c) /\ result[c] = "ok"
        /\ kw[c] = "go_to" /\ popen[c] = 0 /\ handle[c] = cache

\* C5: a process whose start() timed out is the last one the bridge ever
\* spawns, and the bridge never holds a handle afterwards.
C5_StartupTimeoutIsFatal ==
    \A p \in Procs : procs[p].state = "Failed" => (p = Len(procs) /\ cache = 0)

\* C6: a start() that has begun ends, by returning the handle or by raising.
C6_StartTerminates == \A c \in Callers : InStart(c) ~> ~InStart(c)
C6_Witness ==
    \E c \in Callers :
        /\ popen[c] # 0 /\ ~InStart(c)
        /\ procs[popen[c]].state = "Failed" /\ ~procs[popen[c]].alive

\* C7: start() raises only when exactly HealthAttempts probes were issued and
\* none was answered; an answered probe is the last of its start(): the handle
\* is Ready (or beyond) at once and no further probe follows.
C7_TimeoutAfterFullBudget ==
    /\ [](\A c \in Callers :
            /\ probes[c] <= HealthAttempts
            /\ okProbes[c] <= 1
            /\ okProbes[c] = 1 =>
                /\ ~InStart(c) /\ handle[c] = popen[c] /\ pchan[c].state = "closed"
                /\ procs[popen[c]].state \in {"Ready", "Stopped", "Dead"}
            /\ result[c] = "RuntimeError" => okProbes[c] = 0)
    /\ [][\A c \in Callers :
            /\ (result[c] = "none" /\ result'[c] = "RuntimeError")
                  => (probes[c] = HealthAttempts /\ okProbes[c] = 0)
            /\ (okProbes[c] = 1 /\ okProbes'[c] = 1) => pchan'[c] = pchan[c]]_vars
C7_Witness ==
    \E c \in Callers :
        /\ result[c] = "RuntimeError" /\ procs[popen[c]].state = "Failed"
        /\ pchan[c].state = "closed" /\ okProbes[c] = 0

\* C8: a call whose poll() found the process terminated ends with
\* ConnectionError at once, with no channel opened and no request sent; a
\* channel is open or was opened only in a call whose poll() returned None.
C8_DeadProcessNoChannel ==
    \A c \in Callers :
        /\ rc[c] = Exited =>
            /\ Returned(c) /\ result[c] = "ConnectionError"
            /\ chan[c] = NoChan /\ req[c] = <<>>
        /\ chan[c].state # "none" => rc[c] = None
C8_Witness ==
    \E c \in Callers :
        /\ rc[c] = Exited /\ result[c] = "ConnectionError"
        /\ procs[handle[c]].state = "Dead"

\* C9: _close() spawns no engine process and issues no health probe.
C9_StopSpawnsNothing ==
    \A c \in Callers : kw[c] = "_close" => (popen[c] = 0 /\ pchan[c] = NoChan)

\* C10: a _close() that returned has left the cached handle's process
\* terminated; once a process is Stopped, a further kill() changes nothing, and
\* no step spawns a process or changes the cached handle or the port.
C10_Stopped == \E p \in Procs : procs[p].state = "Stopped"
C10_StopIdempotent ==
    /\ [](\A c \in Callers :
            (kw[c] = "_close" /\ Returned(c) /\ result[c] = "ok")
                => (cache = handle[c] /\ ~procs[cache].alive))
    /\ [][C10_Stopped =>
            /\ cache' = cache /\ port' = port /\ ~ProcessSpawned
            /\ \A c \in Callers :
                (pc[c] = "kill" /\ pc'[c] = "idle" /\ procs[handle[c]].state = "Stopped")
                    => procs' = procs]_vars
C10_Witness ==
    \E c \in Callers :
        /\ kw[c] = "_close" /\ pc[c] = "kill"
        /\ procs[handle[c]].state = "Stopped" /\ popen[c] = 0

C11_Expected(c) == IF kw[c] = "location_should_be" THEN args[c].url ELSE args[c].text
C11_Carries(m, v) == \E i \in 1..Len(m) : m[i] = v
\* C11: a validation keyword returns normally exactly when the body the engine
\* answered equals the expected argument; with another body it raises
\* AssertionError, whose message holds the expected value and, for the URL,
\* field-value and title keywords, the observed one too.
C11_AssertionOutcome ==
    \A c \in Callers :
        /\ (kw[c] \in AssertionKeywords /\ Returned(c)) =>
            /\ result[c] = "ok" <=> body[c] = C11_Expected(c)
            /\ (body[c] # None /\ body[c] # C11_Expected(c)) =>
                /\ result[c] = "AssertionError"
                /\ C11_Carries(message[c], C11_Expected(c))
                /\ kw[c] # "page_should_contain" => C11_Carries(message[c], body[c])
        /\ result[c] = "AssertionError" => (kw[c] \in AssertionKeywords /\ body[c] # None)
C11_Witness ==
    \E c \in Callers :
        /\ kw[c] = "location_should_be" /\ args[c].url = "a" /\ body[c] = "b"
        /\ result[c] = "AssertionError"
        /\ message[c] = <<"URL should be '", "a", "'  but was '", "b", "'">>

C12_Canonical(b) ==
    CASE b = <<"C","h","r","o","m","e">> -> <<"c","h","r","o","m","e">>
      [] b = <<" ","F","i","r","e","F","o","x","\t">> -> <<"f","i","r","e","f","o","x">>
      [] b = <<"w","e","b","k","i","t">> -> <<"w","e","b","k","i","t">>
      [] OTHER -> <<>>
\* C12: open_browser called with a name that is a supported browser up to
\* letter case and surrounding whitespace is not refused, and the only request
\* it sends is OpenBrowser with that browser in lower case and the given url
\* ("" when none was given).
C12_OpenBrowserRequest ==
    \A c \in Callers :
        (kw[c] = "open_browser" /\ C12_Canonical(args[c].browser) # <<>>) =>
            /\ result[c] # "ValueError"
            /\ C12_Canonical(args[c].browser) \in SupportedSet
            /\ req[c] # <<>> =>
                req[c] = << [rpc |-> "OpenBrowser",
                             request |-> [msg |-> "openBrowserRequest",
                                          url |-> IF args[c].url = None THEN ""
                                                  ELSE args[c].url,
                                          browser |-> C12_Canonical(args[c].browser)]] >>
C12_Witness ==
    \E c \in Callers :
        /\ kw[c] = "open_browser" /\ result[c] = "ok"
        /\ args[c].browser = <<" ","F","i","r","e","F","o","x","\t">>
        /\ args[c].url = None
        /\ req[c][1].request.browser = <<"f","i","r","e","f","o","x">>
        /\ req[c][1].request.url = ""

C13_Probed(p) == p # 0 /\ procs[p].state \in {"Ready", "Stopped", "Dead"}
\* C13: a keyword request is sent only through the cached handle, and only
\* after a health probe of that handle's process was answered; a call whose
\* start-up raised RuntimeError has sent no request and opened no channel.
C13_ProbeBeforeRequest ==
    /\ [](\A c \in Callers :
            /\ req[c] # <<>> => (handle[c] = cache /\ C13_Probed(cache))
            /\ chan[c].state # "none" => (handle[c] = cache /\ C13_Probed(cache))
            /\ result[c] = "RuntimeError" => (req[c] = <<>> /\ chan[c] = NoChan))
    /\ [][\A c \in Callers :
            (req'[c] # req[c] /\ req'[c] # <<>>) =>
                (C13_Probed(cache) /\ procs' = procs /\ pc[c] = "call")]_vars
C13_Witness ==
    \E c \in Callers :
        /\ Len(req[c]) = 1 /\ result[c] = "ok"
        /\ okProbes[c] = 1 /\ popen[c] = handle[c] /\ handle[c] = cache

\* C14 as stated: while the cached handle's process is Stopped or Dead, every
\* keyword call that has returned ended with ConnectionError.
C14_Terminal == cache # 0 /\ procs[cache].state \in {"Stopped", "Dead"}
C14_EveryCallConnectionError ==
    \A c \in Callers :
        (C14_Terminal /\ Returned(c) /\ kw[c] # "_close") => result[c] = "ConnectionError"

\* C14, amended: once the cached handle's process is Stopped or Dead it stays
\* so; every later keyword call ends with ConnectionError, except open_browser
\* with an unsupported name, which ends with ValueError; and no later step
\* spawns a process, replaces the handle, opens a channel or sends a request.
C14_TerminalIsFinal ==
    /\ [](\A c \in Callers :
            (C14_Terminal /\ Returned(c) /\ kw[c] # "_close") =>
                /\ chan[c] = NoChan /\ req[c] = <<>>
                /\ \/ result[c] = "ConnectionError"
                   \/ /\ result[c] = "ValueError" /\ kw[c] = "open_browser"
                      /\ browser_(args[c].browser) \notin SupportedSet)
    /\ [][C14_Terminal =>
            /\ cache' = cache /\ procs'[cache].state = procs[cache].state
            /\ ~ProcessSpawned
            /\ \A c \in Callers :
                /\ req'[c] = req[c] \/ req'[c] = <<>>
                /\ chan'[c].state # "open"]_vars
C14_Witness ==
    \E c \in Callers :
        /\ kw[c] = "go_to" /\ result[c] = "ConnectionError"
        /\ handle[c] = cache /\ procs[cache].state = "Stopped"

C15_Errors == {"ConnectionError", "RpcError", "AssertionError"}
\* C15: one keyword invocation opens at most one channel and sends at most one
\* request; ConnectionError, RpcError and AssertionError end the invocation in
\* the step that raises them, and no step after the liveness check of an
\* invocation spawns a process.
C15_NoRetry ==
    /\ [](\A c \in Callers :
            /\ Len(req[c]) <= 1
            /\ result[c] \in C15_Errors => pc[c] = "idle")
    /\ [][\A c \in Callers :
            /\ (pc[c] = "channel" /\ pc'[c] = "call") => chan[c] = NoChan
            /\ (result[c] = "none" /\ result'[c] \in C15_Errors) =>
                (pc'[c] = "idle" /\ chan'[c] = chan[c] /\ procs'[handle[c]].alive = procs[handle[c]].alive)
            /\ rc[c] # Unpolled => ~ProcessSpawned]_vars
C15_Witness ==
    \E c \in Callers :
        /\ Returned(c) /\ result[c] = "RpcError" /\ kw[c] = "click_button"
        /\ Len(req[c]) = 1 /\ chan[c].state = "open" /\ popen[c] = 0
        /\ procs[handle[c]].state = "Ready"

\* C16: while a handle is cached the bridge's port is the port its process was
\* started with and no step changes it, nor the port of any process; every
\* channel of a keyword call targets the port of the cached handle's process.
C16_PortFixed ==
    /\ [](cache # 0 => port = procs[cache].port)
    /\ [](\A c \in Callers :
            chan[c].state # "none" =>
                (cache # 0 /\ handle[c] = cache /\ chan[c].port = procs[cache].port))
    /\ [][/\ HandleExists => port' = port
          /\ \A p \in Procs : procs'[p].port = procs[p].port]_vars
C16_Witness ==
    \E c \in Callers :
        /\ chan[c].state = "open" /\ cache = 2 /\ handle[c] = 2
        /\ procs[1].port # procs[2].port /\ chan[c].port = procs[2].port

\* C17: the step that raises the startup timeout leaves the process it spawned
\* running and stores no handle; a process whose start timed out is never the
\* cached handle nor the handle of any call, and it stops running only by
\* exiting on its own, never through a step of the bridge.
C17_LeakedProcess ==
    /\ [](\A p \in Procs :
            procs[p].state = "Failed" =>
                (cache # p /\ \A c \in Callers : handle[c] # p))
    /\ [][/\ \A c \in Callers :
               (result[c] = "none" /\ result'[c] = "RuntimeError") =>
                   /\ procs'[popen[c]].alive = procs[popen[c]].alive
                   /\ procs'[popen[c]].state = "Failed"
                   /\ cache' = cache /\ cache # popen[c]
          /\ \A p \in Procs :
               (procs[p].state = "Failed" /\ procs[p].alive /\ ~procs'[p].alive) =>
                   (pc' = pc /\ result' = result)]_vars
C17_Witness ==
    \E c \in Callers :
        /\ kw[c] = "_close" /\ Returned(c) /\ result[c] = "ok"
        /\ procs[1].state = "Failed" /\ procs[1].alive
        /\ cache = 2 /\ procs[2].state = "Stopped"

C19_OpenProbeChannels == {c \in Callers : pchan[c].state = "open"}
\* C19: a probe channel is open only while its own Health call is pending;
\* every probe opens a new channel, which is closed exactly once before the
\* next probe begins and before start() returns or raises, so no probe channel
\* is open outside start() and at most one is open at any time.
C19_ProbeChannelScoped ==
    /\ [](\A c \in Callers :
            /\ pchan[c].state = "open" => (pc[c] = "health" /\ pchan[c].closes = 0)
            /\ (pc[c] = "loop" /\ probes[c] > 0) =>
                (pchan[c].state = "closed" /\ pchan[c].closes = 1)
            /\ ~InStart(c) => pchan[c].state # "open"
            /\ popen[c] # 0 /\ ~InStart(c) =>
                (pchan[c].state = "closed" /\ pchan[c].closes = 1))
    /\ [](Cardinality(C19_OpenProbeChannels) <= 1)
    /\ [][\A c \in Callers :
            (pc[c] = "loop" /\ pc'[c] = "health") =>
                /\ pchan[c].state # "open"
                /\ pchan'[c] = [state |-> "open", port |-> port, closes |-> 0]]_vars
C19_Witness ==
    \E c \in Callers :
        /\ pc[c] = "health" /\ probes[c] = 2
        /\ pchan[c].state = "open" /\ pchan[c].closes = 0

C18_PastStart(c) == kw[c] # "none" /\ pc[c] # "access" /\ ~InStart(c)
\* C18: when two callers issue their first keyword call concurrently, the
\* engine process is spawned at most once, and once both calls are past the
\* lazy start the bridge's port is the port of the cached handle's process.
C18_SpawnedOnce ==
    /\ Len(procs) <= 1
    /\ ((\A c \in Callers : C18_PastStart(c)) /\ cache # 0) => port = procs[cache].port

====
